---- MODULE Spec2Model ----
(***************************************************************************)
(* Model of the akita-cli backend collector (trace/backend_collector.go): *)
(* the pairing cache, the transform / obfuscate / batch path, the lazy    *)
(* sweep of the pairing cache and Close; of the replay of a HAR archive    *)
(* (apispec: processHAR, parseFromHAR), of the rest client's sendRequest   *)
(* and of the apidump command.  Time is wall-clock seconds.                *)
(***************************************************************************)
EXTENDS Integers, Sequences, FiniteSets, TLC

\* ------------------------------------------------------------------ bounds
MaxKeys == 2
MaxTime == 120
TimeStep == 30
MaxClose == 2
NumPlugins == 2
MaxBatchExchanges == 12
MaxEntries == 2

\* ------------------------------------------------------- program constants
pairCacheExpiration == 60
pairCacheCleanupInterval == 30
uploadBatchMaxSize == 10
uploadBatchFlushDuration == 30
defaultClientTimeout == 5

\* The zero value of time.Time (lastProcessTime before the first Process).
ZeroTime == -1

Keys == 1..MaxKeys
plugins == [i \in 1..NumPlugins |-> i]
Sides == {"req", "resp"}

VARIABLES
  now,              \* wall clock, time.Now()
  pairCache,        \* map[akid.WitnessID]*witnessWithInfo
  uploadBatch,      \* *batcher.InMemory: configuration, queue, age of the queue
  lastProcessTime,  \* time of the last Process call
  dir,              \* the collector's network direction
  handed,           \* history: every call of queueUpload, in call order
  submitted,        \* history: every call of learnClient.ReportWitnesses
  fed,              \* history: the sides parsed so far, per pairing key
  backdated,        \* history: keys cached with an observation time before their arrival
  closeCount,       \* history: number of Close calls so far
  lastCall,         \* history: the call that produced this state, and what it returned
  replay,           \* processHAR / parseFromHAR: the archive, the loop position, the counts
  cmd,              \* the apidump command: its inputs, its position, the error it returns
  request,          \* the last call of sendRequest (package rest): inputs and result
  twin              \* two collectors of one process, and each of them run alone

\* The collector, the clock and their histories.
collectorVars == <<now, pairCache, uploadBatch, lastProcessTime, dir, handed, submitted,
                   fed, backdated, closeCount, lastCall>>

\* The state outside the collector and the clock.
outside == <<replay, cmd, request, twin>>

vars == <<now, pairCache, uploadBatch, lastProcessTime, dir, handed, submitted,
          fed, backdated, closeCount, lastCall, replay, cmd, request, twin>>

\* ------------------------------------------------------------ Go map helpers
MapDelete(m, k) == [x \in (DOMAIN m) \ {k} |-> m[x]]

MapPut(m, k, v) == [x \in (DOMAIN m) \cup {k} |-> IF x = k THEN v ELSE m[x]]

Perms(S) == {f \in [1..Cardinality(S) -> S] : \A i, j \in DOMAIN f : f[i] = f[j] => i = j}

\* ------------------------------------------------------------------- frames
\* The client of an exchange sends the request, the server the response.
ClientIP(k) == IF k % 2 = 1 THEN "A" ELSE "B"

ServerIP(k) == IF k % 2 = 1 THEN "B" ELSE "A"

ClientPort(k) == 5000 + k

ServerPort(k) == 80

\* akinet.ParsedNetworkTraffic carrying an HTTP request or response of the
\* exchange with pairing key k; wellFormed says whether learn.ParseHTTP
\* accepts the content.
HTTPFrame(k, side, obs, wellFormed) ==
  [Content |-> [type |-> IF side = "req" THEN "HTTPRequest" ELSE "HTTPResponse",
                key |-> k, wellFormed |-> wellFormed],
   SrcIP |-> IF side = "req" THEN ClientIP(k) ELSE ServerIP(k),
   SrcPort |-> IF side = "req" THEN ClientPort(k) ELSE ServerPort(k),
   DstIP |-> IF side = "req" THEN ServerIP(k) ELSE ClientIP(k),
   DstPort |-> IF side = "req" THEN ServerPort(k) ELSE ClientPort(k),
   ObservationTime |-> obs]

\* An HTTP frame that learn.ParseHTTP rejects.
MalformedFrame(side, obs) ==
  [Content |-> [type |-> IF side = "req" THEN "HTTPRequest" ELSE "HTTPResponse",
                key |-> 0, wellFormed |-> FALSE],
   SrcIP |-> "A", SrcPort |-> 0, DstIP |-> "B", DstPort |-> 0,
   ObservationTime |-> obs]

\* A frame whose content is no HTTP message.
OtherFrame(obs) ==
  [Content |-> [type |-> "Other", key |-> 0, wellFormed |-> FALSE],
   SrcIP |-> "A", SrcPort |-> 0, DstIP |-> "B", DstPort |-> 0,
   ObservationTime |-> obs]

SideOf(t) == IF t.Content.type = "HTTPRequest" THEN "req" ELSE "resp"

\* learn.ParseHTTP: a partial witness holding one side, with its pairing key.
\* The witness keeps the plugins that transformed it (xform), how often it was
\* obfuscated, and the trail of both in the order they were applied.
ParseHTTP(c) ==
  IF c.wellFormed
  THEN [err |-> FALSE, PairKey |-> c.key,
        Witness |-> [sides |-> {IF c.type = "HTTPRequest" THEN "req" ELSE "resp"},
                     xform |-> <<>>, obfuscated |-> 0, trail |-> <<>>]]
  ELSE [err |-> TRUE, PairKey |-> 0,
        Witness |-> [sides |-> {}, xform |-> <<>>, obfuscated |-> 0, trail |-> <<>>]]

\* learn.MergeWitness(dst, src): field-wise additive merge into dst.
MergeWitness(dst, src) == [dst EXCEPT !.sides = @ \cup src.sides]

\* obfuscate(w.witness.GetMethod()): replaces the values of the witness.
obfuscate(w) ==
  [w EXCEPT !.obfuscated = @ + 1,
            !.trail = Append(@, [op |-> "obfuscate", plugin |-> 0])]

\* ----------------------------------------------------------- the collector
\* The mutable part of a BackendCollector threaded through its methods.
Collector == [pairCache |-> pairCache, uploadBatch |-> uploadBatch,
              handed |-> handed, submitted |-> submitted]

\* NewBackendCollector with the batch size and the flush duration exchanged.
NewBackendCollector_SwappedArgs ==
  [pairCache |-> <<>>,
   uploadBatch |-> [maxSize |-> uploadBatchFlushDuration,
                    flushDuration |-> uploadBatchMaxSize,
                    buf |-> <<>>, since |-> 0],
   lastProcessTime |-> ZeroTime,
   dir |-> "INBOUND"]

NewBackendCollector ==
  [pairCache |-> <<>>,
   uploadBatch |-> [maxSize |-> uploadBatchMaxSize,
                    flushDuration |-> uploadBatchFlushDuration,
                    buf |-> <<>>, since |-> 0],
   lastProcessTime |-> ZeroTime,
   dir |-> "INBOUND"]

\* witnessWithInfo.toReport; convErr says that hashing or marshalling fails.
toReport(r, d, convErr) ==
  IF convErr
  THEN [err |-> TRUE]
  ELSE [err |-> FALSE,
        Direction |-> d,
        OriginAddr |-> r.srcIP, OriginPort |-> r.srcPort,
        DestinationAddr |-> r.dstIP, DestinationPort |-> r.dstPort,
        WitnessProto |-> <<"base64", r.witness>>,
        ClientWitnessTime |-> r.observationTime,
        Hash |-> <<"hash", r.witness>>,
        ID |-> r.id]

\* The ids of the items of a batch.
BufIds(buf) == {buf[i].id : i \in DOMAIN buf}

RECURSIVE ConvertAll(_, _, _)
ConvertAll(in, d, env) ==
  IF in = <<>> THEN <<>>
  ELSE LET r == toReport(Head(in), d, Head(in).id \in env.convFail)
       IN (IF r.err THEN <<>> ELSE <<r>>) \o ConvertAll(Tail(in), d, env)

\* uploadWitnesses that sends nothing of a batch one item of which fails to
\* convert.
uploadWitnesses_AllOrNothing(C, in, trigger, env) ==
  [C EXCEPT !.submitted =
     Append(@, [reports |-> IF BufIds(in) \cap env.convFail = {}
                            THEN ConvertAll(in, env.dir, env) ELSE <<>>,
                ok |-> env.rpcOK, trigger |-> trigger, batch |-> in,
                convFail |-> env.convFail \cap BufIds(in)])]

\* uploadWitnesses that puts the batch back into the queue when the
\* submission fails.
uploadWitnesses_RequeuesOnFailure(C, in, trigger, env) ==
  [C EXCEPT !.submitted =
     Append(@, [reports |-> ConvertAll(in, env.dir, env),
                ok |-> env.rpcOK, trigger |-> trigger, batch |-> in,
                convFail |-> env.convFail \cap BufIds(in)]),
            !.uploadBatch.buf = IF env.rpcOK THEN @ ELSE in \o @]

\* BackendCollector.uploadWitnesses: the batcher's processBatch callback.  One
\* call of learnClient.ReportWitnesses with the reports of the items that
\* converted; its error is logged.  The record of the call keeps the batch and
\* the ids whose conversion failed.
uploadWitnesses(C, in, trigger, env) ==
  [C EXCEPT !.submitted =
     Append(@, [reports |-> ConvertAll(in, env.dir, env),
                ok |-> env.rpcOK, trigger |-> trigger, batch |-> in,
                convFail |-> env.convFail \cap BufIds(in)])]

\* batcher.InMemory.Add: append; a queue that reaches maxSize is flushed whole.
BatchAdd(C, item, env) ==
  LET b == C.uploadBatch
      buf1 == Append(b.buf, item)
  IN IF Len(buf1) >= b.maxSize
     THEN uploadWitnesses([C EXCEPT !.uploadBatch.buf = <<>>, !.uploadBatch.since = 0],
                          buf1, "size", env)
     ELSE [C EXCEPT !.uploadBatch.buf = buf1,
                    !.uploadBatch.since = IF b.buf = <<>> THEN env.now ELSE b.since]

\* batcher.InMemory: the time-triggered flush, at wall-clock time t.
BatchOverdue(b, t) == b.buf # <<>> /\ t - b.since > b.flushDuration

BatchTimeFlush(C, env) ==
  uploadWitnesses([C EXCEPT !.uploadBatch.buf = <<>>, !.uploadBatch.since = 0],
                  C.uploadBatch.buf, "time", env)

\* batcher.InMemory.Close: final flush; an empty queue is a no-op.
BatchClose(C, env) ==
  IF C.uploadBatch.buf = <<>> THEN C
  ELSE uploadWitnesses([C EXCEPT !.uploadBatch.buf = <<>>, !.uploadBatch.since = 0],
                       C.uploadBatch.buf, "close", env)

\* p.Transform(w.witness.GetMethod()), for each plugin invoked, in order.
Transformed(witness, invoked) ==
  [witness EXCEPT !.xform = @ \o invoked,
                  !.trail = @ \o [i \in DOMAIN invoked |->
                                    [op |-> "Transform", plugin |-> invoked[i]]]]

\* The loop of queueUpload over c.plugins, from plugin i on: the plugins
\* invoked, and whether one of them returned an error.
RECURSIVE TransformChain(_, _)
TransformChain(i, failing) ==
  IF i > Len(plugins) THEN [invoked |-> <<>>, err |-> FALSE]
  ELSE IF plugins[i] \in failing THEN [invoked |-> <<plugins[i]>>, err |-> TRUE]
  ELSE LET rest == TransformChain(i + 1, failing)
       IN [invoked |-> <<plugins[i]>> \o rest.invoked, err |-> rest.err]

\* queueUpload that logs the error of a plugin and goes on.
queueUpload_IgnoresVeto(C, w, via, env) ==
  LET chain == TransformChain(1, {})
      w1 == [w EXCEPT !.witness = Transformed(@, chain.invoked)]
      w2 == [w1 EXCEPT !.witness = obfuscate(@)]
      rec == [w |-> w, via |-> via, erroring |-> env.failing[w.id],
              invoked |-> chain.invoked, vetoed |-> env.failing[w.id] # {}]
  IN BatchAdd([C EXCEPT !.handed = Append(@, rec)], w2, env)

\* queueUpload that obfuscates before it runs the plugins.
queueUpload_ObfuscatesFirst(C, w, via, env) ==
  LET chain == TransformChain(1, env.failing[w.id])
      w1 == [w EXCEPT !.witness = obfuscate(@)]
      w2 == [w1 EXCEPT !.witness = Transformed(@, chain.invoked)]
      rec == [w |-> w, via |-> via, erroring |-> env.failing[w.id],
              invoked |-> chain.invoked, vetoed |-> chain.err]
      C1 == [C EXCEPT !.handed = Append(@, rec)]
  IN IF chain.err THEN C1 ELSE BatchAdd(C1, w2, env)

\* BackendCollector.queueUpload
queueUpload(C, w, via, env) ==
  LET chain == TransformChain(1, env.failing[w.id])
      w1 == [w EXCEPT !.witness = Transformed(@, chain.invoked)]
      w2 == [w1 EXCEPT !.witness = obfuscate(@)]
      rec == [w |-> w, via |-> via, erroring |-> env.failing[w.id],
              invoked |-> chain.invoked, vetoed |-> chain.err]
      C1 == [C EXCEPT !.handed = Append(@, rec)]
  IN IF chain.err THEN C1 ELSE BatchAdd(C1, w2, env)

\* Before that holds also of the cutoff time itself.
Before_OrEqual(t, cutoff) == t <= cutoff

\* e.observationTime.Before(cutoffTime)
Before(t, cutoff) == t < cutoff

Expired(cache, cutoffTime) ==
  {k \in DOMAIN cache : Before(cache[k].observationTime, cutoffTime)}

\* flushPairCache without the delete of the entries it emits.
RECURSIVE flushPairCache_KeepsEntries(_, _, _, _, _)
flushPairCache_KeepsEntries(C, cutoffTime, order, via, env) ==
  IF order = <<>> THEN C
  ELSE LET k == Head(order)
           e == C.pairCache[k]
           C1 == IF Before(e.observationTime, cutoffTime)
                 THEN queueUpload(C, e, via, env)
                 ELSE C
       IN flushPairCache_KeepsEntries(C1, cutoffTime, Tail(order), via, env)

\* BackendCollector.flushPairCache; order is the order in which the range
\* over the map visits the entries it flushes.
RECURSIVE flushPairCache(_, _, _, _, _)
flushPairCache(C, cutoffTime, order, via, env) ==
  IF order = <<>> THEN C
  ELSE LET k == Head(order)
           e == C.pairCache[k]
           C1 == IF Before(e.observationTime, cutoffTime)
                 THEN [queueUpload(C, e, via, env) EXCEPT !.pairCache = MapDelete(@, k)]
                 ELSE C
       IN flushPairCache(C1, cutoffTime, Tail(order), via, env)

\* PairUp without the delete of the paired entry.
PairUp_KeepsEntry(C, key, partial, isRequest, env) ==
  LET pair0 == C.pairCache[key]
      pair1 == [pair0 EXCEPT !.witness = MergeWitness(@, partial.Witness)]
      pair2 == IF isRequest
               THEN [pair1 EXCEPT !.srcIP = pair1.dstIP, !.dstIP = pair1.srcIP,
                                  !.srcPort = pair1.dstPort, !.dstPort = pair1.srcPort]
               ELSE pair1
  IN queueUpload(C, pair2, IF isRequest THEN "request" ELSE "response", env)

\* PairUp without the flip of the addressing.
PairUp_NeverFlips(C, key, partial, isRequest, env) ==
  LET pair0 == C.pairCache[key]
      pair1 == [pair0 EXCEPT !.witness = MergeWitness(@, partial.Witness)]
      C1 == [C EXCEPT !.pairCache = MapDelete(@, key)]
  IN queueUpload(C1, pair1, IF isRequest THEN "request" ELSE "response", env)

\* Process, the branch that finds the pair of the partial witness in the cache:
\* merge into the cached item, delete the entry, flip the addressing when the
\* partial is the request, queue the result.
PairUp(C, key, partial, isRequest, env) ==
  LET pair0 == C.pairCache[key]
      pair1 == [pair0 EXCEPT !.witness = MergeWitness(@, partial.Witness)]
      C1 == [C EXCEPT !.pairCache = MapDelete(@, key)]
      pair2 == IF isRequest
               THEN [pair1 EXCEPT !.srcIP = pair1.dstIP, !.dstIP = pair1.srcIP,
                                  !.srcPort = pair1.dstPort, !.dstPort = pair1.srcPort]
               ELSE pair1
  IN queueUpload(C1, pair2, IF isRequest THEN "request" ELSE "response", env)

\* Process, the branch that stores the partial witness to wait for its pair.
StorePartial(C, t, partial) ==
  [C EXCEPT !.pairCache =
     MapPut(@, partial.PairKey,
            [srcIP |-> t.SrcIP, srcPort |-> t.SrcPort,
             dstIP |-> t.DstIP, dstPort |-> t.DstPort,
             witness |-> partial.Witness,
             observationTime |-> t.ObservationTime,
             id |-> partial.PairKey])]

\* ProcessBody without the return on a parse error.
ProcessBody_IgnoresParseError(C, t, env) ==
  IF t.Content.type \notin {"HTTPRequest", "HTTPResponse"}
  THEN [C |-> C, ret |-> "nil"]
  ELSE LET isRequest == t.Content.type = "HTTPRequest"
           partial == ParseHTTP(t.Content)
       IN IF partial.PairKey \in DOMAIN C.pairCache
          THEN [C |-> PairUp(C, partial.PairKey, partial, isRequest, env), ret |-> "nil"]
          ELSE [C |-> StorePartial(C, t, partial), ret |-> "nil"]

\* The body of BackendCollector.Process (everything but the deferred sweep):
\* the collector after it, and the error it returns.
ProcessBody(C, t, env) ==
  IF t.Content.type \notin {"HTTPRequest", "HTTPResponse"}
  THEN [C |-> C, ret |-> "nil"]
  ELSE LET isRequest == t.Content.type = "HTTPRequest"
           partial == ParseHTTP(t.Content)
       IN IF partial.err
          THEN [C |-> C, ret |-> "nil"]
          ELSE IF partial.PairKey \in DOMAIN C.pairCache
          THEN [C |-> PairUp(C, partial.PairKey, partial, isRequest, env), ret |-> "nil"]
          ELSE [C |-> StorePartial(C, t, partial), ret |-> "nil"]

\* SweepDue without the comparison with the cleanup interval.
SweepDue_IgnoresInterval(last, t) == last # ZeroTime

\* The deferred function of Process: the lazy sweep of the pairing cache.
SweepDue(last, t) == last # ZeroTime /\ t - last > pairCacheCleanupInterval

\* Process on the collector col (cache, batch, histories, last-process time):
\* the body, then the deferred sweep, which visits the cache in the given order.
ProcessOn(col, t, env, order) ==
  LET C == [pairCache |-> col.pairCache, uploadBatch |-> col.uploadBatch,
            handed |-> col.handed, submitted |-> col.submitted]
      body == ProcessBody(C, t, env)
      C2 == IF SweepDue(col.lastProcessTime, env.now)
            THEN flushPairCache(body.C, env.now - pairCacheExpiration, order, "sweep", env)
            ELSE body.C
  IN [pairCache |-> C2.pairCache, uploadBatch |-> C2.uploadBatch,
      handed |-> C2.handed, submitted |-> C2.submitted, lastProcessTime |-> env.now]

\* Close on the collector col.
CloseOn(col, env, order) ==
  LET C == [pairCache |-> col.pairCache, uploadBatch |-> col.uploadBatch,
            handed |-> col.handed, submitted |-> col.submitted]
      C2 == BatchClose(flushPairCache(C, env.now, order, "close", env), env)
  IN [pairCache |-> C2.pairCache, uploadBatch |-> C2.uploadBatch,
      handed |-> C2.handed, submitted |-> C2.submitted,
      lastProcessTime |-> col.lastProcessTime]

\* The batcher's timer on the collector col, at the time env.now.
TimerOn(col, env) ==
  LET C == [pairCache |-> col.pairCache, uploadBatch |-> col.uploadBatch,
            handed |-> col.handed, submitted |-> col.submitted]
      C2 == IF BatchOverdue(col.uploadBatch, env.now) THEN BatchTimeFlush(C, env) ELSE C
  IN [pairCache |-> C2.pairCache, uploadBatch |-> C2.uploadBatch,
      handed |-> C2.handed, submitted |-> C2.submitted,
      lastProcessTime |-> col.lastProcessTime]

\* An environment in which no plugin, conversion or submission fails.
Calm == [now |-> now, dir |-> dir, failing |-> [k \in Keys |-> {}],
         convFail |-> {}, rpcOK |-> TRUE]

Env(failing, handedKeys, convFail, rpcOK) ==
  [now |-> now, dir |-> dir,
   failing |-> [k \in Keys |-> IF k \in handedKeys THEN failing[k] ELSE {}],
   convFail |-> convFail, rpcOK |-> rpcOK]

\* The outcomes of the conversions and of the submission matter only in a
\* call that flushes the batch.
FlushOutcomes(ids, ConvSets, RpcResults) ==
  IF ids = {} THEN {<<{}, TRUE>>}
  ELSE {cs \in ConvSets : cs \subseteq ids} \X RpcResults

Parsed(t) == t.Content.type \in {"HTTPRequest", "HTTPResponse"} /\ t.Content.wellFormed

\* BackendCollector.Process(t).  FailSets: the sets of plugins that may
\* return an error on one exchange; ConvSets: the sets of exchange ids whose
\* conversion to a report may fail; RpcResults: the results of a submission.
Process(t, FailSets, ConvSets, RpcResults) ==
  LET body0 == ProcessBody(Collector, t, Calm).C
      due == SweepDue(lastProcessTime, now)
      cutoff == now - pairCacheExpiration
      stale == IF due THEN Expired(body0.pairCache, cutoff) ELSE {}
      pairs == Parsed(t) /\ t.Content.key \in DOMAIN pairCache
      handedKeys == stale \cup (IF pairs THEN {t.Content.key} ELSE {})
      flushIds == IF Len(uploadBatch.buf) + Cardinality(handedKeys) >= uploadBatch.maxSize
                  THEN BufIds(uploadBatch.buf) \cup handedKeys ELSE {}
  IN \E failing \in [handedKeys -> FailSets], order \in Perms(stale),
        fo \in FlushOutcomes(flushIds, ConvSets, RpcResults) :
       LET env == Env(failing, handedKeys, fo[1], fo[2])
           body == ProcessBody(Collector, t, env)
           C2 == ProcessOn([pairCache |-> pairCache, uploadBatch |-> uploadBatch,
                            handed |-> handed, submitted |-> submitted,
                            lastProcessTime |-> lastProcessTime], t, env, order)
       IN /\ pairCache' = C2.pairCache
          /\ uploadBatch' = C2.uploadBatch
          /\ handed' = C2.handed
          /\ submitted' = C2.submitted
          /\ lastProcessTime' = C2.lastProcessTime
          /\ fed' = IF Parsed(t)
                    THEN [fed EXCEPT ![t.Content.key] = @ \cup {SideOf(t)}]
                    ELSE fed
          /\ backdated' = {k \in DOMAIN C2.pairCache :
                             IF k \in DOMAIN pairCache THEN k \in backdated
                             ELSE t.ObservationTime < now}
          /\ lastCall' = [op |-> "Process", type |-> t.Content.type, ret |-> body.ret]
          /\ UNCHANGED <<now, dir, closeCount>>

\* BackendCollector.Close
Close(FailSets, ConvSets, RpcResults) ==
  LET stale == Expired(pairCache, now)
  IN \E failing \in [stale -> FailSets], order \in Perms(stale),
        fo \in FlushOutcomes(BufIds(uploadBatch.buf) \cup stale, ConvSets, RpcResults) :
       LET env == Env(failing, stale, fo[1], fo[2])
           C2 == CloseOn([pairCache |-> pairCache, uploadBatch |-> uploadBatch,
                          handed |-> handed, submitted |-> submitted,
                          lastProcessTime |-> lastProcessTime], env, order)
       IN /\ pairCache' = C2.pairCache
          /\ uploadBatch' = C2.uploadBatch
          /\ handed' = C2.handed
          /\ submitted' = C2.submitted
          /\ backdated' = backdated \cap DOMAIN C2.pairCache
          /\ closeCount' = closeCount + 1
          /\ lastCall' = [op |-> "Close", type |-> "", ret |-> "nil"]
          /\ UNCHANGED <<now, dir, lastProcessTime, fed>>

\* Wall-clock time passes; the batcher's timer flushes a queue whose oldest
\* item has resided longer than the flush duration.
Tick(ConvSets, RpcResults) ==
  LET t1 == now + TimeStep
      overdue == BatchOverdue(uploadBatch, t1)
  IN \E fo \in FlushOutcomes(IF overdue THEN BufIds(uploadBatch.buf) ELSE {},
                              ConvSets, RpcResults) :
       LET env == [Calm EXCEPT !.now = t1, !.convFail = fo[1], !.rpcOK = fo[2]]
           C1 == TimerOn([pairCache |-> pairCache, uploadBatch |-> uploadBatch,
                          handed |-> handed, submitted |-> submitted,
                          lastProcessTime |-> lastProcessTime], env)
       IN /\ now' = t1
          /\ uploadBatch' = C1.uploadBatch
          /\ submitted' = C1.submitted
          /\ lastCall' = [op |-> "Tick", type |-> "", ret |-> ""]
          /\ UNCHANGED <<pairCache, lastProcessTime, dir, handed, fed, backdated, closeCount>>

\* Outcomes of a flush in which every conversion and the submission succeed.
NoConvFailure == {{}}

RpcSucceeds == {TRUE}

\* ------------------------------------------------------------ archive replay
\* A side of an archive entry: absent, convertible and accepted by
\* learn.ParseHTTP ("ok"), rejected by FromHAR ("badHAR"), or convertible but
\* rejected by learn.ParseHTTP ("badHTTP").
SideKinds == {"absent", "ok", "badHAR", "badHTTP"}

Entries == [req : SideKinds, resp : SideKinds, StartedDateTime : {0}]

Archives == UNION {[1..n -> Entries] : n \in 0..MaxEntries}

\* convertRequest / convertResponse: the error of FromHAR.
convertErr(kind) == kind = "badHAR"

\* akinet.ParsedNetworkTraffic{ObservationTime: ..., Content: ...} of a
\* converted side of the entry with sequence number seq; the addressing is
\* left at its zero value.  The pairing key is derived from the id of the
\* archive and the sequence number.
ReplayFrame(seq, side, kind, obs) ==
  [HTTPFrame(seq + 1, side, obs, kind = "ok")
     EXCEPT !.SrcIP = "", !.SrcPort = 0, !.DstIP = "", !.DstPort = 0]

\* sampled_err.Errors.Add: count the error, keep it while fewer than
\* SampleCount are kept.
ErrorsAdd(errs, e) ==
  [errs EXCEPT !.TotalCount = @ + 1,
               !.Samples = IF Len(@) < errs.SampleCount THEN Append(@, e) ELSE @]

\* The selection with the two collectors exchanged.
SelectCollector_Exchanged(outbound) == IF outbound THEN "inbound" ELSE "outbound"

\* processHAR: col := inboundCol; if harContent.AkitaExt.Outbound { col = outboundCol }
SelectCollector(outbound) == IF outbound THEN "outbound" ELSE "inbound"

\* The state of a replay of the archive file with the given content, before
\* processHAR is called.
ReplayOf(loadable, outbound, entries) ==
  [pc |-> "load", loadable |-> loadable, Outbound |-> outbound, Entries |-> entries,
   col |-> "", i |-> 0, entrySuccess |-> TRUE, successfulEntries |-> 0,
   errs |-> [SampleCount |-> 3, TotalCount |-> 0, Samples |-> <<>>],
   received |-> [c \in {"inbound", "outbound"} |-> <<>>],
   warned |-> FALSE, ret |-> ""]

NoReplay == [ReplayOf(FALSE, FALSE, <<>>) EXCEPT !.pc = "none"]

\* processHAR up to the call of parseFromHAR, and parseFromHAR up to its loop.
ReplayStart ==
  /\ replay.pc = "load"
  /\ replay' = IF ~replay.loadable
               THEN [replay EXCEPT !.pc = "done", !.ret = "failed to load HAR file"]
               ELSE [replay EXCEPT !.col = SelectCollector(replay.Outbound),
                                   !.pc = IF replay.Entries = <<>> THEN "return"
                                          ELSE "request"]
  /\ UNCHANGED <<collectorVars, cmd, request, twin>>

\* One side of the entry at position i: converted and fed to the selected
\* collector (whose result is ignored), or its error added to errs.
FeedSide(r, side, kind) ==
  IF kind = "absent" THEN r
  ELSE IF convertErr(kind)
  THEN [r EXCEPT !.entrySuccess = FALSE,
                 !.errs = ErrorsAdd(@, <<"FromHAR", r.i, side>>)]
  ELSE [r EXCEPT !.received[r.col] = Append(@, [Seq |-> r.i, side |-> side])]

\* The loop of parseFromHAR, first half of an iteration: the request.
ReplayRequest ==
  /\ replay.pc = "request"
  /\ LET e == replay.Entries[replay.i + 1]
         r0 == [replay EXCEPT !.entrySuccess = TRUE]
     IN /\ replay' = [FeedSide(r0, "req", e.req) EXCEPT !.pc = "response"]
        /\ UNCHANGED <<cmd, request, twin>>
        /\ IF e.req \in {"ok", "badHTTP"}
           THEN Process(ReplayFrame(replay.i, "req", e.req, e.StartedDateTime),
                        {{}}, NoConvFailure, RpcSucceeds)
           ELSE UNCHANGED collectorVars

\* The loop of parseFromHAR, second half of an iteration: the response, and
\* the count of the entry.
ReplayResponse ==
  /\ replay.pc = "response"
  /\ LET e == replay.Entries[replay.i + 1]
         r1 == FeedSide(replay, "resp", e.resp)
     IN /\ replay' = [r1 EXCEPT
                        !.successfulEntries = IF r1.entrySuccess THEN @ + 1 ELSE @,
                        !.i = @ + 1,
                        !.pc = IF replay.i + 1 = Len(replay.Entries) THEN "return"
                               ELSE "request"]
        /\ UNCHANGED <<cmd, request, twin>>
        /\ IF e.resp \in {"ok", "badHTTP"}
           THEN Process(ReplayFrame(replay.i, "resp", e.resp, e.StartedDateTime),
                        {{}}, NoConvFailure, RpcSucceeds)
           ELSE UNCHANGED collectorVars

\* The return of parseFromHAR and the summary of processHAR.
ReplayReturn ==
  /\ replay.pc = "return"
  /\ replay' = [replay EXCEPT !.pc = "done", !.ret = "nil",
                              !.warned = replay.errs.TotalCount > 0]
  /\ UNCHANGED <<collectorVars, cmd, request, twin>>

\* -------------------------------------------------------------- rest client
\* cfg.GetAPIKeyAndSecret()
Cfgs == [apiKeyID : {"", "id"}, apiKeySecret : {"", "secret"}]

\* The context of a call: whether it carries a deadline, and which.
Ctxs == [hasDeadline : BOOLEAN, deadline : {30}]

ServerStatuses == {199, 200, 299, 300, 401, 500}

\* What happens to a request that is sent: FromRequest rejects it, the
\* transport fails after its retries, or a response arrives, whose body may
\* fail to be read.
Outcomes ==
  [kind : {"response"}, StatusCode : ServerStatuses, Body : {"", "b"}, readOK : BOOLEAN]
    \cup [kind : {"unconvertible", "transport error"}, StatusCode : {0}, Body : {""},
          readOK : {FALSE}]

\* A message: its text, and the status code and the body printed into it (0
\* and "" when the text has no place for them).
Message(format, code, body) == [format |-> format, StatusCode |-> code, Body |-> body]

NilError == [kind |-> "nil", StatusCode |-> 0, Body |-> "", msg |-> Message("", 0, "")]

PlainError(text) ==
  [kind |-> "error", StatusCode |-> 0, Body |-> "", msg |-> Message(text, 0, "")]

\* HTTPError.Error()
HTTPErrorError(he) ==
  IF he.StatusCode = 401
  THEN Message("Invalid credentials, run \"login\" or use AKITA_API_KEY_SECRET environment variable",
               0, "")
  ELSE Message("received status code %d, body: %s", he.StatusCode, he.Body)

HTTPError(code, body) ==
  [kind |-> "HTTPError", StatusCode |-> code, Body |-> body,
   msg |-> HTTPErrorError([StatusCode |-> code, Body |-> body])]

\* sendRequest that accepts every status below 300.
sendRequest_AcceptsBelow200(ctx, c, o) ==
  LET timeout == IF ctx.hasDeadline THEN ctx.deadline ELSE defaultClientTimeout
      Ret(body, err, sent) == [body |-> body, err |-> err, sent |-> sent, timeout |-> timeout]
  IN IF c.apiKeyID = "" THEN Ret("", PlainError("API key ID not found"), FALSE)
     ELSE IF c.apiKeySecret = "" THEN Ret("", PlainError("API key secret not found"), FALSE)
     ELSE IF o.kind = "unconvertible"
     THEN Ret("", PlainError("failed to convert HTTP request into retryable request"), FALSE)
     ELSE IF o.kind = "transport error" THEN Ret("", PlainError("transport"), TRUE)
     ELSE IF ~o.readOK THEN Ret("", PlainError("failed to read response body"), TRUE)
     ELSE IF o.StatusCode > 299 THEN Ret("", HTTPError(o.StatusCode, o.Body), TRUE)
     ELSE Ret(o.Body, NilError, TRUE)

\* rest.sendRequest(ctx, req) with the credentials c and the outcome o of the
\* HTTP exchange: the body and the error it returns, whether a request went
\* out, and the deadline it ran under.
sendRequest(ctx, c, o) ==
  LET timeout == IF ctx.hasDeadline THEN ctx.deadline ELSE defaultClientTimeout
      Ret(body, err, sent) == [body |-> body, err |-> err, sent |-> sent, timeout |-> timeout]
  IN IF c.apiKeyID = "" THEN Ret("", PlainError("API key ID not found"), FALSE)
     ELSE IF c.apiKeySecret = "" THEN Ret("", PlainError("API key secret not found"), FALSE)
     ELSE IF o.kind = "unconvertible"
     THEN Ret("", PlainError("failed to convert HTTP request into retryable request"), FALSE)
     ELSE IF o.kind = "transport error" THEN Ret("", PlainError("transport"), TRUE)
     ELSE IF ~o.readOK THEN Ret("", PlainError("failed to read response body"), TRUE)
     ELSE IF o.StatusCode < 200 \/ o.StatusCode > 299
     THEN Ret("", HTTPError(o.StatusCode, o.Body), TRUE)
     ELSE Ret(o.Body, NilError, TRUE)

NoCall == [ctx |-> [hasDeadline |-> FALSE, deadline |-> 30],
           cfg |-> [apiKeyID |-> "", apiKeySecret |-> ""],
           outcome |-> [kind |-> "none", StatusCode |-> 0, Body |-> "", readOK |-> FALSE],
           result |-> [body |-> "", err |-> NilError, sent |-> FALSE, timeout |-> 0]]

\* One call of sendRequest.
RestCall ==
  /\ \E ctx \in Ctxs, c \in Cfgs, o \in Outcomes :
       request' = [ctx |-> ctx, cfg |-> c, outcome |-> o, result |-> sendRequest(ctx, c, o)]
  /\ UNCHANGED <<collectorVars, replay, cmd, twin>>

\* ---------------------------------------------------------- apidump command
\* The inputs of a run of the command: whether the tags parse, whether the
\* plugins load, the configured credentials and whether the service accepts
\* them.
CmdOf(tagsOK, pluginsOK, c, valid) ==
  [pc |-> "start", tagsOK |-> tagsOK, pluginsOK |-> pluginsOK, cfg |-> c,
   valid |-> valid, err |-> [cause |-> "", detail |-> NilError], calls |-> <<>>]

NoCmd == [CmdOf(TRUE, TRUE, [apiKeyID |-> "id", apiKeySecret |-> "secret"], TRUE)
            EXCEPT !.pc = "none"]

\* RunE that goes on when the plugins fail to load.
RunE_IgnoresPluginError(c) ==
  IF ~c.tagsOK
  THEN [c EXCEPT !.pc = "failed", !.err.cause = "failed to parse tags"]
  ELSE [c EXCEPT !.pc = "run"]

\* Cmd.RunE up to the call of apidump.Run.
RunE(c) ==
  IF ~c.tagsOK
  THEN [c EXCEPT !.pc = "failed", !.err.cause = "failed to parse tags"]
  ELSE IF ~c.pluginsOK
  THEN [c EXCEPT !.pc = "failed", !.err.cause = "failed to load plugins"]
  ELSE [c EXCEPT !.pc = "run"]

CmdRunE ==
  /\ cmd.pc = "start"
  /\ cmd' = RunE(cmd)
  /\ UNCHANGED <<collectorVars, replay, request, twin>>

\* The response of the service to a request with the configured credentials.
Answer(valid, status) ==
  [kind |-> "response", StatusCode |-> IF valid THEN status ELSE 401, Body |-> "",
   readOK |-> TRUE]

\* apidump.Run before it ingests: a request to the service with the
\* configured credentials; its error is returned, wrapped, by RunE.
CheckCredentials(c) ==
  LET res == sendRequest([hasDeadline |-> FALSE, deadline |-> 30], c.cfg, Answer(c.valid, 200))
  IN IF res.err # NilError
     THEN [c EXCEPT !.pc = "failed", !.err = [cause |-> "credentials", detail |-> res.err]]
     ELSE [c EXCEPT !.pc = "ingesting"]

CmdRunStart ==
  /\ cmd.pc = "run"
  /\ cmd' = CheckCredentials(cmd)
  /\ UNCHANGED <<collectorVars, replay, request, twin>>

\* The outcomes of a submission: the transport fails, or the service answers.
SubmitOutcomes(valid) ==
  {[kind |-> "transport error", StatusCode |-> 0, Body |-> "", readOK |-> FALSE]}
    \cup {Answer(valid, st) : st \in {200, 500}}

\* learnClient.ReportWitnesses, called by uploadWitnesses with a deadline of
\* 30 seconds: a sendRequest with the configured credentials.
ReportWitnesses(c, o) == sendRequest([hasDeadline |-> TRUE, deadline |-> 30], c.cfg, o)

\* The command with the calls of ReportWitnesses made in this step recorded.
Reported(c, o, before, after) ==
  IF Len(after) > Len(before)
  THEN [c EXCEPT !.calls = Append(@, [outcome |-> o, result |-> ReportWitnesses(c, o)])]
  ELSE c

\* apidump.Run while it ingests: a frame of the capture is processed.
CmdProcess ==
  /\ cmd.pc = "ingesting"
  /\ \E k \in Keys, side \in Sides, o \in SubmitOutcomes(cmd.valid) :
       /\ side \notin fed[k]
       /\ Process(HTTPFrame(k, side, now, TRUE), {{}}, NoConvFailure,
                  {ReportWitnesses(cmd, o).err = NilError})
       /\ cmd' = Reported(cmd, o, submitted, submitted')
  /\ UNCHANGED <<replay, request, twin>>

CmdTick ==
  /\ cmd.pc = "ingesting"
  /\ now + TimeStep <= MaxTime
  /\ \E o \in SubmitOutcomes(cmd.valid) :
       /\ Tick(NoConvFailure, {ReportWitnesses(cmd, o).err = NilError})
       /\ cmd' = Reported(cmd, o, submitted, submitted')
  /\ UNCHANGED <<replay, request, twin>>

\* apidump.Run at the end of the capture: the collector is closed.
CmdClose ==
  /\ cmd.pc = "ingesting"
  /\ \E o \in SubmitOutcomes(cmd.valid) :
       /\ Close({{}}, NoConvFailure, {ReportWitnesses(cmd, o).err = NilError})
       /\ cmd' = [Reported(cmd, o, submitted, submitted') EXCEPT !.pc = "done"]
  /\ UNCHANGED <<replay, request, twin>>

\* ------------------------------------------------------------ two collectors
\* The inbound and the outbound collector of one process.  A collector holds
\* references to its map and to its batcher, which live in the heap (objs);
\* rest.HTTPClient is one object of the package, used by every submission.
Names == {"inbound", "outbound"}

\* Two collectors made around one and the same map.
TwinRefs_SharedCache ==
  [inbound |-> [pairCache |-> 1, uploadBatch |-> 2],
   outbound |-> [pairCache |-> 1, uploadBatch |-> 4]]

\* NewBackendCollector, called twice: each call makes a map and a batcher of
\* its own.
TwinRefs ==
  [inbound |-> [pairCache |-> 1, uploadBatch |-> 2],
   outbound |-> [pairCache |-> 3, uploadBatch |-> 4]]

\* A collector by value, as NewBackendCollector returns it.
NewCollectorValue ==
  [pairCache |-> NewBackendCollector.pairCache,
   uploadBatch |-> NewBackendCollector.uploadBatch,
   handed |-> <<>>, submitted |-> <<>>,
   lastProcessTime |-> NewBackendCollector.lastProcessTime]

NewTwin ==
  [now |-> 0,
   objs |-> [r \in UNION {{TwinRefs[c].pairCache, TwinRefs[c].uploadBatch} : c \in Names} |->
               IF \E c \in Names : TwinRefs[c].pairCache = r
               THEN NewBackendCollector.pairCache
               ELSE NewBackendCollector.uploadBatch],
   cols |-> [c \in Names |->
               [refs |-> TwinRefs[c],
                dir |-> IF c = "inbound" THEN "INBOUND" ELSE "OUTBOUND",
                lastProcessTime |-> NewBackendCollector.lastProcessTime,
                handed |-> <<>>, submitted |-> <<>>, closed |-> FALSE]],
   solo |-> [c \in Names |-> NewCollectorValue],
   fed |-> {},
   HTTPClient |-> [requests |-> 0],
   last |-> [op |-> "New", col |-> ""]]

\* The collector c of the pair tw, by value.
View(tw, c) ==
  [pairCache |-> tw.objs[tw.cols[c].refs.pairCache],
   uploadBatch |-> tw.objs[tw.cols[c].refs.uploadBatch],
   handed |-> tw.cols[c].handed, submitted |-> tw.cols[c].submitted,
   lastProcessTime |-> tw.cols[c].lastProcessTime]

\* The pair tw after a call left the collector c in the state v: the map and
\* the batcher are written through the references of c, and every new
\* submission went through rest.HTTPClient.
Put(tw, c, v) ==
  LET refs == tw.cols[c].refs
  IN [tw EXCEPT
        !.objs = [r \in DOMAIN @ |->
                    IF r = refs.uploadBatch THEN v.uploadBatch
                    ELSE IF r = refs.pairCache THEN v.pairCache ELSE @[r]],
        !.cols[c].handed = v.handed,
        !.cols[c].submitted = v.submitted,
        !.cols[c].lastProcessTime = v.lastProcessTime,
        !.HTTPClient.requests = @ + Len(v.submitted) - Len(tw.cols[c].submitted)]

TwinEnv(tw, c, t) ==
  [now |-> t, dir |-> tw.cols[c].dir, failing |-> [k \in Keys |-> {}],
   convFail |-> {}, rpcOK |-> TRUE]

\* The entries that a Process call of frame t on the collector v sweeps.
StaleIn(v, t, env) ==
  IF SweepDue(v.lastProcessTime, env.now)
  THEN Expired(ProcessOn(v, t, env, <<>>).pairCache, env.now - pairCacheExpiration)
  ELSE {}

\* Process on one of the two collectors; the same call on the collector run
\* alone.
TwinProcess ==
  /\ \E c \in Names, k \in Keys, side \in Sides :
       /\ ~twin.cols[c].closed
       /\ <<k, side>> \notin twin.fed
       /\ LET t == HTTPFrame(k, side, twin.now, TRUE)
              env == TwinEnv(twin, c, twin.now)
              stale == StaleIn(View(twin, c), t, env)
              staleSolo == StaleIn(twin.solo[c], t, env)
          IN \E order \in Perms(stale), orderSolo \in Perms(staleSolo) :
               /\ stale = staleSolo => order = orderSolo
               /\ twin' = [Put(twin, c, ProcessOn(View(twin, c), t, env, order)) EXCEPT
                             !.solo[c] = ProcessOn(@, t, env, orderSolo),
                             !.fed = @ \cup {<<k, side>>},
                             !.last = [op |-> "Process", col |-> c]]
  /\ UNCHANGED <<collectorVars, replay, cmd, request>>

\* Close on one of the two collectors.
TwinClose ==
  /\ \E c \in Names :
       /\ ~twin.cols[c].closed
       /\ LET env == TwinEnv(twin, c, twin.now)
              stale == Expired(View(twin, c).pairCache, twin.now)
              staleSolo == Expired(twin.solo[c].pairCache, twin.now)
          IN \E order \in Perms(stale), orderSolo \in Perms(staleSolo) :
               /\ stale = staleSolo => order = orderSolo
               /\ twin' = [Put(twin, c, CloseOn(View(twin, c), env, order)) EXCEPT
                             !.solo[c] = CloseOn(@, env, orderSolo),
                             !.cols[c].closed = TRUE,
                             !.last = [op |-> "Close", col |-> c]]
  /\ UNCHANGED <<collectorVars, replay, cmd, request>>

\* Wall-clock time passes; the timer of each batcher may flush its queue.
TwinTick ==
  /\ twin.now + TimeStep <= MaxTime
  /\ LET t1 == twin.now + TimeStep
         tw1 == Put(twin, "inbound",
                    TimerOn(View(twin, "inbound"), TwinEnv(twin, "inbound", t1)))
         tw2 == Put(tw1, "outbound",
                    TimerOn(View(tw1, "outbound"), TwinEnv(twin, "outbound", t1)))
     IN twin' = [tw2 EXCEPT
                   !.now = t1,
                   !.solo = [c \in Names |-> TimerOn(@[c], TwinEnv(twin, c, t1))],
                   !.last = [op |-> "Tick", col |-> ""]]
  /\ UNCHANGED <<collectorVars, replay, cmd, request>>

\* ------------------------------------------------------------ specification
InitCollector ==
  /\ now = 0
  /\ pairCache = NewBackendCollector.pairCache
  /\ uploadBatch = NewBackendCollector.uploadBatch
  /\ lastProcessTime = NewBackendCollector.lastProcessTime
  /\ dir = NewBackendCollector.dir
  /\ handed = <<>>
  /\ submitted = <<>>
  /\ fed = [k \in Keys |-> {}]
  /\ backdated = {}
  /\ closeCount = 0
  /\ lastCall = [op |-> "New", type |-> "", ret |-> ""]

Init ==
  /\ InitCollector
  /\ replay = NoReplay
  /\ cmd = NoCmd
  /\ request = NoCall
  /\ twin = NewTwin

\* Observation times of the frames supplied at wall-clock time t: a capture
\* stamps a frame with the current time, a replayed archive with any time.
ObsTimes(t) == {0, t, t + TimeStep}

\* The plugins that return an error on one exchange: none, or any one.
AllFailSets == {{}} \cup {{p} : p \in 1..NumPlugins}

\* A pairing key identifies one exchange: each of its sides is parsed once.
ProcessHTTP ==
  /\ closeCount = 0
  /\ \E k \in Keys, side \in Sides, obs \in ObsTimes(now) :
       /\ side \notin fed[k]
       /\ Process(HTTPFrame(k, side, obs, TRUE), AllFailSets, NoConvFailure, RpcSucceeds)
  /\ UNCHANGED outside

ProcessMalformed ==
  /\ closeCount = 0
  /\ \E side \in Sides :
       Process(MalformedFrame(side, now), AllFailSets, NoConvFailure, RpcSucceeds)
  /\ UNCHANGED outside

ProcessOther ==
  /\ closeCount = 0
  /\ Process(OtherFrame(now), AllFailSets, NoConvFailure, RpcSucceeds)
  /\ UNCHANGED outside

DoClose ==
  /\ closeCount < MaxClose
  /\ Close(AllFailSets, NoConvFailure, RpcSucceeds)
  /\ UNCHANGED outside

DoTick ==
  /\ now + TimeStep <= MaxTime
  /\ Tick(NoConvFailure, RpcSucceeds)
  /\ UNCHANGED outside

Next == ProcessHTTP \/ ProcessMalformed \/ ProcessOther \/ DoClose \/ DoTick

Spec == Init /\ [][Next]_vars

\* ---------------------------------------------------- batching specification
\* One exchange after the other, request then response, stamped with the
\* current time: enough exchanges to fill a batch.
BatchProcess ==
  /\ closeCount = 0
  /\ Len(handed) < MaxBatchExchanges
  /\ Process(HTTPFrame(1, IF 1 \in DOMAIN pairCache THEN "resp" ELSE "req", now, TRUE),
             {{}}, NoConvFailure, RpcSucceeds)
  /\ UNCHANGED outside

BatchClose1 ==
  /\ closeCount < 1
  /\ Close({{}}, NoConvFailure, RpcSucceeds)
  /\ UNCHANGED outside

BatchTick ==
  /\ now + TimeStep <= MaxTime
  /\ Tick(NoConvFailure, RpcSucceeds)
  /\ UNCHANGED outside

NextBatch == BatchProcess \/ BatchClose1 \/ BatchTick

SpecBatch == Init /\ [][NextBatch]_vars

\* ------------------------------------------------------ replay specification
\* One archive file, of any content, replayed into one of two collectors
\* while time passes.
InitReplay ==
  /\ InitCollector
  /\ replay \in {ReplayOf(l, o, a) : l \in BOOLEAN, o \in BOOLEAN, a \in Archives}
  /\ cmd = NoCmd
  /\ request = NoCall
  /\ twin = NewTwin

ReplayTick ==
  /\ now + TimeStep <= MaxTime
  /\ Tick(NoConvFailure, RpcSucceeds)
  /\ UNCHANGED outside

NextReplay == ReplayStart \/ ReplayRequest \/ ReplayResponse \/ ReplayReturn \/ ReplayTick

SpecReplay == InitReplay /\ [][NextReplay]_vars

\* ------------------------------------------------------ command specification
\* One run of the command, with any tags, plugins and credentials.
InitCmd ==
  /\ InitCollector
  /\ replay = NoReplay
  /\ cmd \in {CmdOf(t, p, c, v) : t \in BOOLEAN, p \in BOOLEAN, c \in Cfgs, v \in BOOLEAN}
  /\ request = NoCall
  /\ twin = NewTwin

NextCmd == CmdRunE \/ CmdRunStart \/ CmdProcess \/ CmdTick \/ CmdClose

SpecCmd == InitCmd /\ [][NextCmd]_vars

\* ----------------------------------------------- two-collector specification
\* Any interleaving of Process and Close on the two collectors.
NextTwin == TwinProcess \/ TwinClose \/ TwinTick

SpecTwin == Init /\ [][NextTwin]_vars

\* -------------------------------------------------- rest client specification
\* Calls of sendRequest with any credentials, context and outcome.
NextRest == RestCall

SpecRest == Init /\ [][NextRest]_vars

\* ---------------------------------------------------- shipping specification
\* Frames stamped with the current time, no plugin error; a conversion or a
\* submission may fail in any flush.
AnyConvFailure == SUBSET Keys

RpcAnyResult == BOOLEAN

ShipProcess ==
  /\ closeCount = 0
  /\ \E k \in Keys, side \in Sides :
       /\ side \notin fed[k]
       /\ Process(HTTPFrame(k, side, now, TRUE), {{}}, AnyConvFailure, RpcAnyResult)
  /\ UNCHANGED outside

ShipClose ==
  /\ closeCount < 1
  /\ Close({{}}, AnyConvFailure, RpcAnyResult)
  /\ UNCHANGED outside

ShipTick ==
  /\ now + TimeStep <= MaxTime
  /\ Tick(AnyConvFailure, RpcAnyResult)
  /\ UNCHANGED outside

NextShip == ShipProcess \/ ShipClose \/ ShipTick

SpecShip == Init /\ [][NextShip]_vars

\* ------------------------------------------------------------------- claims
\* The calls of queueUpload, in the history h, for the exchange with key k.
EmittedIn(h, k) == {i \in DOMAIN h : h[i].w.id = k}

Complete(w) == w.witness.sides = Sides

\* C1, as stated: once both sides of a key have been parsed (before any
\* Close), exactly one exchange has been handed to queueUpload for the key, it
\* holds both sides, and nothing is left in the cache for the key.
C1_AlwaysPaired ==
  \A k \in Keys :
    (fed[k] = Sides /\ closeCount = 0) =>
      /\ k \notin DOMAIN pairCache
      /\ Cardinality(EmittedIn(handed, k)) = 1
      /\ \A i \in EmittedIn(handed, k) : Complete(handed[i].w)

\* C1, amended: when the second side of a key is parsed while the entry of the
\* first side is still cached, the call hands over exactly one exchange for the
\* key, holding both sides, and removes the entry; and a key for which a
\* complete exchange was handed over has no other exchange, ever.
C1_PairedWhileCached ==
  /\ [][\A k \in Keys :
          (k \in DOMAIN pairCache /\ fed'[k] # fed[k]) =>
            /\ k \notin DOMAIN pairCache'
            /\ Len(handed') > Len(handed)
            /\ handed'[Len(handed) + 1].w.id = k
            /\ Complete(handed'[Len(handed) + 1].w)]_vars
  /\ [](\A k \in Keys :
          (\E i \in EmittedIn(handed, k) : Complete(handed[i].w)) =>
            /\ Cardinality(EmittedIn(handed, k)) = 1
            /\ k \notin DOMAIN pairCache)

\* A pair completed after a sweep has emitted the entry of another key.
C1_Witness ==
  \E m, j \in DOMAIN handed :
    /\ m < j
    /\ handed[m].via = "sweep"
    /\ handed[j].via \in {"request", "response"} /\ Complete(handed[j].w)

\* The reports of the submissions sub.
ReportsIn(sub) ==
  UNION {{sub[s].reports[i] : i \in DOMAIN sub[s].reports} : s \in DOMAIN sub}

Reports == ReportsIn(submitted)

\* C2: a complete exchange is emitted, and reported, with the request's source
\* (the client) as origin and the request's destination (the server) as
\* destination, whichever side completed the pair.
C2_OriginIsRequestSource ==
  /\ \A i \in DOMAIN handed :
       Complete(handed[i].w) =>
         /\ handed[i].w.srcIP = ClientIP(handed[i].w.id)
         /\ handed[i].w.srcPort = ClientPort(handed[i].w.id)
         /\ handed[i].w.dstIP = ServerIP(handed[i].w.id)
         /\ handed[i].w.dstPort = ServerPort(handed[i].w.id)
  /\ \A r \in Reports :
       r.WitnessProto[2].sides = Sides =>
         /\ r.OriginAddr = ClientIP(r.ID) /\ r.OriginPort = ClientPort(r.ID)
         /\ r.DestinationAddr = ServerIP(r.ID) /\ r.DestinationPort = ServerPort(r.ID)

\* A pair completed by its request and a pair completed by its response, both
\* reported.
C2_Witness ==
  /\ \E i \in DOMAIN handed : handed[i].via = "request" /\ ~handed[i].vetoed
  /\ \E i \in DOMAIN handed : handed[i].via = "response" /\ ~handed[i].vetoed
  /\ Cardinality({r \in Reports : r.WitnessProto[2].sides = Sides}) = 2

\* C3, as stated: right after a Process call no entry that was stamped on
\* arrival (or later) is older than the expiration bound plus one sweep
\* interval: the sweeps of the calls made since have emitted it.
C3_NoEntryRetained ==
  lastProcessTime = now =>
    \A k \in (DOMAIN pairCache) \ backdated :
      pairCache[k].observationTime + pairCacheExpiration + pairCacheCleanupInterval >= now

\* No fragment is handed to queueUpload twice, and a fragment that was handed
\* over is not in the cache.
NoFragmentTwice ==
  /\ \A i, j \in DOMAIN handed :
       (i # j /\ handed[i].w.id = handed[j].w.id) =>
         handed[i].w.witness.sides \cap handed[j].w.witness.sides = {}
  /\ \A i \in DOMAIN handed :
       handed[i].w.id \in DOMAIN pairCache =>
         handed[i].w.witness.sides \cap pairCache[handed[i].w.id].witness.sides = {}

\* C4, as stated: no fragment is handed to queueUpload twice, an entry that was
\* handed over is not in the cache, and Close hands over each entry that is
\* cached when it is called, once.
C4_EmittedExactlyOnce ==
  /\ []NoFragmentTwice
  /\ [][closeCount' # closeCount =>
          \A k \in DOMAIN pairCache :
            Cardinality({i \in DOMAIN handed' : handed'[i].w = pairCache[k]}) = 1]_vars

\* C5, as stated: when Close returns the cache and the batch are empty, and
\* every exchange that was queued, and every cached entry that no plugin
\* vetoed, is in a report submitted to the remote service.
C5_CloseShipsEverything ==
  [][closeCount' # closeCount =>
       /\ pairCache' = <<>>
       /\ uploadBatch'.buf = <<>>
       /\ \A i \in DOMAIN uploadBatch.buf :
            \E r \in ReportsIn(submitted') :
              r.ID = uploadBatch.buf[i].id /\ r.WitnessProto[2] = uploadBatch.buf[i].witness
       /\ \A k \in DOMAIN pairCache :
            \E i \in (Len(handed) + 1)..Len(handed') :
              /\ handed'[i].w = pairCache[k]
              /\ ~handed'[i].vetoed =>
                   \E r \in ReportsIn(submitted') :
                     r.ID = k /\ r.WitnessProto[2].sides = pairCache[k].witness.sides]_vars

\* C6, as stated: a Close that follows a Close hands nothing to queueUpload
\* and submits nothing.
C6_SecondCloseIsNoOp ==
  [][(closeCount >= 1 /\ closeCount' # closeCount) =>
       (handed' = handed /\ submitted' = submitted)]_vars

\* The items of the batches flushed in the submissions sub.
FlushedIn(sub) ==
  UNION {{sub[s].batch[i] : i \in DOMAIN sub[s].batch} : s \in DOMAIN sub}

\* C7: the queue never holds 10 items between operations, a flush by size
\* takes the 10 items of a full queue, a queued item never resides longer
\* than 30 seconds, and the flush by time takes a queue of fewer than 10.
C7_FlushBySizeOrTime ==
  /\ Len(uploadBatch.buf) < 10
  /\ uploadBatch.buf # <<>> => now - uploadBatch.since <= 30
  /\ \A s \in DOMAIN submitted :
       /\ submitted[s].trigger = "size" => Len(submitted[s].batch) = 10
       /\ submitted[s].trigger = "time" => Len(submitted[s].batch) \in 1..9

\* A flush by size and a flush by time have both happened.
C7_Witness ==
  /\ \E s \in DOMAIN submitted : submitted[s].trigger = "size"
  /\ \E s \in DOMAIN submitted : submitted[s].trigger = "time"

\* The step is a Process call on a frame of the given kind.
ProcessStep(kinds) ==
  /\ lastCall'.op = "Process"
  /\ <<lastCall'.type, fed' # fed>> \in kinds

\* What the lazy sweep, and nothing else, does to the cache and the history:
\* when more than 30 seconds have passed since the previous Process call it
\* removes exactly the entries observed more than 60 seconds ago and hands
\* them over; otherwise nothing changes but the last-process time.
OnlyTheSweep ==
  /\ \A k \in DOMAIN pairCache' : k \in DOMAIN pairCache /\ pairCache'[k] = pairCache[k]
  /\ Len(handed') >= Len(handed) /\ SubSeq(handed', 1, Len(handed)) = handed
  /\ Len(handed') - Len(handed) = Cardinality((DOMAIN pairCache) \ DOMAIN pairCache')
  /\ \A i \in (Len(handed) + 1)..Len(handed') :
       /\ handed'[i].via = "sweep"
       /\ handed'[i].w.id \in (DOMAIN pairCache) \ DOMAIN pairCache'
       /\ handed'[i].w = pairCache[handed'[i].w.id]
  /\ \A k \in DOMAIN pairCache :
       k \notin DOMAIN pairCache' <=>
         /\ lastProcessTime # ZeroTime /\ now - lastProcessTime > 30
         /\ pairCache[k].observationTime < now - 60
  /\ (lastProcessTime = ZeroTime \/ now - lastProcessTime <= 30) =>
       (pairCache' = pairCache /\ uploadBatch' = uploadBatch /\ submitted' = submitted)
  /\ lastProcessTime' = now

\* C8, as stated: a Process call on a frame that is no HTTP message leaves the
\* cache and the batch as they were and hands nothing to queueUpload.
C8_OtherChangesNothing ==
  [][ProcessStep({<<"Other", FALSE>>}) =>
       (pairCache' = pairCache /\ uploadBatch' = uploadBatch /\ handed' = handed)]_vars

\* C8, amended: a Process call on a frame that is no HTTP message returns nil
\* and does nothing but the lazy sweep at its end and the update of the
\* last-process time: no sweep is due, nothing changes.
C8_OtherOnlySweeps ==
  [][ProcessStep({<<"Other", FALSE>>}) => (OnlyTheSweep /\ lastCall'.ret = "nil")]_vars

\* A Process call on a non-HTTP frame has swept an entry out of the cache.
C8_Witness ==
  /\ lastCall.op = "Process" /\ lastCall.type = "Other"
  /\ handed # <<>> /\ handed[Len(handed)].via = "sweep"
  /\ pairCache # <<>>

\* C9, as stated: Process returns nil, and a call whose parse fails leaves
\* every cache entry as it was.
C9_MalformedLeavesCache ==
  /\ [](lastCall.op = "Process" => lastCall.ret = "nil")
  /\ [][ProcessStep({<<"HTTPRequest", FALSE>>, <<"HTTPResponse", FALSE>>}) =>
          pairCache' = pairCache]_vars

\* C9, amended: Process returns nil for every frame, and a call whose parse
\* fails stores no entry and merges into none; it removes only what the lazy
\* sweep at its end expires, and it updates the last-process time.
C9_MalformedOnlySweeps ==
  /\ [](lastCall.op = "Process" => lastCall.ret = "nil")
  /\ [][ProcessStep({<<"HTTPRequest", FALSE>>, <<"HTTPResponse", FALSE>>}) =>
          OnlyTheSweep]_vars

\* A Process call whose parse failed, with entries left in and swept out of
\* the cache.
C9_Witness ==
  /\ lastCall.op = "Process" /\ lastCall.type \in {"HTTPRequest", "HTTPResponse"}
  /\ handed # <<>> /\ handed[Len(handed)].via = "sweep"
  /\ handed[Len(handed)].w.id \notin DOMAIN pairCache
  /\ fed[handed[Len(handed)].w.id] = handed[Len(handed)].w.witness.sides
  /\ pairCache # <<>>
  /\ \A k \in Keys : Cardinality(fed[k]) <= 1

\* The index of the first plugin of the chain that is in the set erroring,
\* 0 when there is none.
FirstErroring(erroring) ==
  IF \E i \in DOMAIN plugins : plugins[i] \in erroring
  THEN CHOOSE i \in DOMAIN plugins :
         plugins[i] \in erroring /\ \A j \in 1..(i - 1) : plugins[j] \notin erroring
  ELSE 0

\* C10: for every exchange handed to queueUpload the plugins were invoked in
\* registration order up to the first that returned an error; an exchange
\* with such a plugin was not obfuscated and is in no batch, and every other
\* exchange is, transformed by all plugins and obfuscated once, in the queue
\* or in a flushed batch.
C10_VetoStopsOneExchange ==
  \A i \in DOMAIN handed :
    LET r == handed[i]
        f == FirstErroring(r.erroring)
        same(item) == item.id = r.w.id /\ item.witness.sides = r.w.witness.sides
        Queued == {uploadBatch.buf[j] : j \in DOMAIN uploadBatch.buf} \cup FlushedIn(submitted)
    IN /\ r.invoked = SubSeq(plugins, 1, IF f = 0 THEN Len(plugins) ELSE f)
       /\ r.vetoed <=> f # 0
       /\ f # 0 => ~\E item \in Queued : same(item)
       /\ f = 0 => \E item \in Queued :
                      /\ same(item)
                      /\ item.witness.xform = plugins
                      /\ item.witness.obfuscated = 1

\* One Close emitted two entries: the first was vetoed by the second plugin,
\* the second passed and was shipped.
C10_Witness ==
  /\ closeCount = 1 /\ Len(handed) = 2
  /\ handed[1].via = "close" /\ handed[1].vetoed /\ handed[1].invoked = plugins
  /\ handed[2].via = "close" /\ ~handed[2].vetoed
  /\ \E r \in Reports : r.ID = handed[2].w.id

\* The items of a flushed batch whose conversion succeeded, in batch order.
Converted(sub) == SelectSeq(sub.batch, LAMBDA item : item.id \notin sub.convFail)

\* C11: every submission carries exactly the reports of the items of its batch
\* that converted, in batch order, each with the collector's direction and the
\* item's addressing, observation time and id; the submission is made also
\* when items were dropped.
C11_FailedItemDroppedAlone ==
  \A s \in DOMAIN submitted :
    LET sub == submitted[s]
        kept == Converted(sub)
    IN /\ Len(sub.reports) = Len(kept)
       /\ \A i \in DOMAIN kept :
            /\ sub.reports[i].Direction = dir
            /\ sub.reports[i].OriginAddr = kept[i].srcIP
            /\ sub.reports[i].OriginPort = kept[i].srcPort
            /\ sub.reports[i].DestinationAddr = kept[i].dstIP
            /\ sub.reports[i].DestinationPort = kept[i].dstPort
            /\ sub.reports[i].ClientWitnessTime = kept[i].observationTime
            /\ sub.reports[i].ID = kept[i].id

\* A batch of two exchanges, the first of which failed to convert, was
\* submitted with the report of the second.
C11_Witness ==
  \E s \in DOMAIN submitted :
    /\ Len(submitted[s].batch) = 2
    /\ submitted[s].convFail = {submitted[s].batch[1].id}
    /\ Len(submitted[s].reports) = 1
    /\ submitted[s].reports[1].ID = submitted[s].batch[2].id

SameExchange(a, b) == a.id = b.id /\ a.witness.sides = b.witness.sides

\* The items of a batch whose submission failed are neither in the queue nor
\* in the batch of another submission.
FailedBatchIsGone ==
  \A s \in DOMAIN submitted :
    ~submitted[s].ok =>
      \A i \in DOMAIN submitted[s].batch :
        /\ \A j \in DOMAIN uploadBatch.buf :
             ~SameExchange(uploadBatch.buf[j], submitted[s].batch[i])
        /\ \A s2 \in DOMAIN submitted :
             s2 # s => \A j \in DOMAIN submitted[s2].batch :
                         ~SameExchange(submitted[s2].batch[j], submitted[s].batch[i])

\* C12: a step that empties the queue makes exactly one submission, of the
\* whole queue; the items of a batch whose submission failed are discarded,
\* never queued again and in no other submission.
C12_FailedBatchDiscarded ==
  /\ []FailedBatchIsGone
  /\ [][(uploadBatch.buf # <<>> /\ uploadBatch'.buf = <<>>) =>
          /\ Len(submitted') = Len(submitted) + 1
          /\ SubSeq(submitted', 1, Len(submitted)) = submitted
          /\ SubSeq(submitted'[Len(submitted')].batch, 1, Len(uploadBatch.buf))
               = uploadBatch.buf]_vars

\* After a failed submission the collector accepted a frame of another
\* exchange and submitted it in a later flush.
C12_Witness ==
  /\ Len(submitted) >= 2
  /\ ~submitted[1].ok /\ submitted[1].batch # <<>>
  /\ submitted[2].ok /\ submitted[2].reports # <<>>
  /\ \A i \in DOMAIN submitted[1].batch :
       submitted[2].batch[1].observationTime
         > submitted[1].batch[i].observationTime + uploadBatchFlushDuration

\* C18: in every Process call the last-process time becomes the current time;
\* an entry is swept only in a call that is not the first and comes more than
\* 30 seconds after the previous one, and only when it was observed earlier
\* than one minute before now; such a call leaves no such entry in the cache;
\* a swept entry is handed over as it was cached, and every entry that the
\* call neither sweeps nor pairs stays as it was.
C18_LazySweepWhenDue ==
  [][lastCall'.op = "Process" =>
       LET due == lastProcessTime # ZeroTime /\ now - lastProcessTime > 30
           cutoff == now - 60
           own == {k \in Keys : fed'[k] # fed[k]}
           New == (Len(handed) + 1)..Len(handed')
           Swept == {i \in New : handed'[i].via = "sweep"}
       IN /\ lastProcessTime' = now
          /\ SubSeq(handed', 1, Len(handed)) = handed
          /\ \A i \in Swept : due /\ handed'[i].w.observationTime < cutoff
          /\ \A k \in DOMAIN pairCache' :
               ~(due /\ pairCache'[k].observationTime < cutoff)
          /\ \A k \in (DOMAIN pairCache) \ own :
               IF due /\ pairCache[k].observationTime < cutoff
               THEN /\ k \notin DOMAIN pairCache'
                    /\ Cardinality({i \in Swept : handed'[i].w = pairCache[k]}) = 1
               ELSE /\ k \in DOMAIN pairCache'
                    /\ pairCache'[k] = pairCache[k]
                    /\ \A i \in New : handed'[i].w.id # k]_vars

\* A Process call of a request swept an expired entry and left another entry,
\* observed within the last minute, in the cache.
C18_Witness ==
  /\ lastCall.op = "Process" /\ lastCall.type = "HTTPRequest"
  /\ lastProcessTime = now
  /\ handed # <<>> /\ handed[Len(handed)].via = "sweep"
  /\ handed[Len(handed)].w.observationTime < now - pairCacheExpiration
  /\ \E k \in DOMAIN pairCache : pairCache[k].observationTime >= now - pairCacheExpiration

\* What was applied to the witness of a queued exchange: every plugin, in
\* registration order, then the obfuscation.
FullTrail ==
  [i \in 1..Len(plugins) |-> [op |-> "Transform", plugin |-> plugins[i]]]
    \o <<[op |-> "obfuscate", plugin |-> 0]>>

\* C19: every exchange in the queue or in a flushed batch was transformed by
\* every plugin once, in registration order, and obfuscated once after the
\* last plugin.
C19_TransformedThenObfuscated ==
  /\ \A j \in DOMAIN uploadBatch.buf : uploadBatch.buf[j].witness.trail = FullTrail
  /\ \A item \in FlushedIn(submitted) : item.witness.trail = FullTrail

\* One exchange is in the queue, another was stopped by the first plugin and
\* is neither transformed further nor obfuscated nor queued.
C19_Witness ==
  /\ Len(uploadBatch.buf) = 1
  /\ uploadBatch.buf[1].witness.trail = FullTrail
  /\ \E i \in DOMAIN handed :
       /\ handed[i].vetoed /\ handed[i].invoked = <<plugins[1]>>
       /\ handed[i].w.id # uploadBatch.buf[1].id

\* The number of places that hold the side of the exchange with key k: the
\* cache entry, the exchanges a plugin stopped, the queue, the flushed batches.
Holds(item, k, side) == item.id = k /\ side \in item.witness.sides

PlacesOf(k, side) ==
  (IF k \in DOMAIN pairCache /\ Holds(pairCache[k], k, side) THEN 1 ELSE 0)
  + Cardinality({i \in DOMAIN handed : handed[i].vetoed /\ Holds(handed[i].w, k, side)})
  + Cardinality({j \in DOMAIN uploadBatch.buf : Holds(uploadBatch.buf[j], k, side)})
  + Cardinality(UNION {{<<s, j>> : j \in {x \in DOMAIN submitted[s].batch :
                                             Holds(submitted[s].batch[x], k, side)}}
                       : s \in DOMAIN submitted})

\* C20: every parsed side is in exactly one place (a cache entry, an exchange
\* stopped by a plugin, an item of the queue, an item of one flushed batch),
\* and a side that was not parsed is in none.
C20_EachFragmentInOnePlace ==
  \A k \in Keys, side \in Sides :
    PlacesOf(k, side) = IF side \in fed[k] THEN 1 ELSE 0

\* Parsed sides in three kinds of place at once: one cached, one queued, one
\* flushed.
C20_Witness ==
  /\ pairCache # <<>>
  /\ uploadBatch.buf # <<>>
  /\ \E s \in DOMAIN submitted : submitted[s].batch # <<>>

\* The sides of an archive that are present, and those that failed to parse,
\* in FromHAR or in learn.ParseHTTP.
SidesOf(entries) == {<<n, side>> : n \in DOMAIN entries, side \in Sides}

KindOf(entries, ns) == IF ns[2] = "req" THEN entries[ns[1]].req ELSE entries[ns[1]].resp

FailedSides(entries) ==
  {ns \in SidesOf(entries) : KindOf(entries, ns) \in {"badHAR", "badHTTP"}}

\* C13, as stated: when the replay of an archive returns, the count of
\* successful entries is the number of entries none of whose present sides
\* failed to parse, the total error count is the number of sides that failed
\* to parse, and at most 3 errors are sampled.
C13_CountsEveryParseFailure ==
  (replay.pc = "done" /\ replay.ret = "nil") =>
    /\ replay.successfulEntries =
         Cardinality({n \in DOMAIN replay.Entries :
                        \A side \in Sides : <<n, side>> \notin FailedSides(replay.Entries)})
    /\ replay.errs.TotalCount = Cardinality(FailedSides(replay.Entries))
    /\ Len(replay.errs.Samples) <= 3

\* The frames of an archive: per entry, in order, the request when it is
\* present and converts, then the response when it is present and converts.
FramesOf(entries) ==
  LET Side(n, side, kind) ==
        IF kind \in {"ok", "badHTTP"} THEN <<[Seq |-> n - 1, side |-> side]>> ELSE <<>>
      F[n \in 0..Len(entries)] ==
        IF n = 0 THEN <<>>
        ELSE F[n - 1] \o Side(n, "req", entries[n].req) \o Side(n, "resp", entries[n].resp)
  IN F[Len(entries)]

IsPrefix(a, b) == Len(a) <= Len(b) /\ SubSeq(b, 1, Len(a)) = a

\* C14: the collector that the archive's flag does not select receives no
\* frame; the other one receives the frames of the archive in entry order,
\* the request of an entry before its response, all of them by the time the
\* replay returns; and each frame received is one Process call on it.
C14_OneCollectorInOrder ==
  LET sel == IF replay.Outbound THEN "outbound" ELSE "inbound"
      other == IF replay.Outbound THEN "inbound" ELSE "outbound"
  IN /\ replay.received[other] = <<>>
     /\ IsPrefix(replay.received[sel], FramesOf(replay.Entries))
     /\ (replay.pc \in {"return", "done"} /\ replay.loadable) =>
          replay.received[sel] = FramesOf(replay.Entries)
     /\ Len(replay.received[sel]) > 0 => lastProcessTime # ZeroTime

\* An outbound archive of two entries with both sides was replayed: four
\* frames reached the outbound collector, none the inbound one.
C14_Witness ==
  /\ replay.pc = "done" /\ replay.Outbound
  /\ replay.received["outbound"] =
       <<[Seq |-> 0, side |-> "req"], [Seq |-> 0, side |-> "resp"],
         [Seq |-> 1, side |-> "req"], [Seq |-> 1, side |-> "resp"]>>
  /\ replay.received["inbound"] = <<>>

KeyMissing(c) == c.apiKeyID = "" \/ c.apiKeySecret = ""

\* No submission was refused for a missing key, and none was answered 401.
NoBatchLostToCredentials ==
  \A n \in DOMAIN cmd.calls :
    cmd.calls[n].result.sent /\ cmd.calls[n].result.err.StatusCode # 401

C16_BodyExactlyOn2xx ==
  LET o == request.outcome
      res == request.result
      in2xx == o.StatusCode >= 200 /\ o.StatusCode <= 299
  IN /\ (o.kind = "response" /\ ~KeyMissing(request.cfg)) =>
          /\ (res.err = NilError /\ res.body = o.Body) <=> in2xx
          /\ ~in2xx => /\ res.err.kind = "HTTPError"
                       /\ res.err.StatusCode = o.StatusCode /\ res.err.Body = o.Body
     /\ (o.kind # "none" /\ KeyMissing(request.cfg)) => (res.err # NilError /\ ~res.sent)

\* C16, amended: the same, for a response whose body could be read; when the
\* body cannot be read sendRequest returns an error that is no HTTPError,
\* whatever the status.
C16_BodyExactlyOnReadable2xx ==
  LET o == request.outcome
      res == request.result
      in2xx == o.StatusCode >= 200 /\ o.StatusCode <= 299
  IN /\ (o.kind = "response" /\ ~KeyMissing(request.cfg) /\ o.readOK) =>
          /\ (res.err = NilError /\ res.body = o.Body) <=> in2xx
          /\ ~in2xx =>
               /\ res.err.kind = "HTTPError"
               /\ res.err.StatusCode = o.StatusCode /\ res.err.Body = o.Body
               /\ IF o.StatusCode = 401
                  THEN res.err.msg.format =
                         "Invalid credentials, run \"login\" or use AKITA_API_KEY_SECRET environment variable"
                  ELSE /\ res.err.msg.StatusCode = o.StatusCode
                       /\ res.err.msg.Body = o.Body
     /\ (o.kind = "response" /\ ~KeyMissing(request.cfg) /\ ~o.readOK) =>
          (res.err.kind = "error" /\ res.sent)
     /\ (o.kind # "none" /\ KeyMissing(request.cfg)) => (res.err # NilError /\ ~res.sent)

\* A response with status 401 and a body: the error is an HTTPError with both,
\* and a request was sent.
C16_Witness ==
  /\ request.outcome.kind = "response" /\ request.outcome.StatusCode = 401
  /\ request.outcome.readOK /\ request.outcome.Body = "b"
  /\ request.result.err = HTTPError(401, "b") /\ request.result.sent

Other(c) == IF c = "inbound" THEN "outbound" ELSE "inbound"

\* Each of the two collectors is in the state, and has emitted and submitted
\* the exchanges, that it has when it receives the same calls alone.
AsIfAlone == \A c \in Names : View(twin, c) = twin.solo[c]

\* C17: under every interleaving of Process and Close on two collectors, a
\* call on one leaves the cache, the batch, the last-process time and the
\* histories of the other unchanged, and each collector emits and submits
\* what it emits and submits when run alone.
C17_CollectorsIndependent ==
  /\ []AsIfAlone
  /\ [][twin'.last.op \in {"Process", "Close"} =>
          View(twin', Other(twin'.last.col)) = View(twin, Other(twin'.last.col))]_vars

\* Both collectors have submitted a batch through the one HTTP client, and
\* the inbound collector still caches an entry.
C17_Witness ==
  /\ twin.cols["inbound"].submitted # <<>>
  /\ twin.cols["outbound"].submitted # <<>>
  /\ twin.HTTPClient.requests >= 2
  /\ twin.objs[twin.cols["inbound"].refs.pairCache] # <<>>

\* Every entry of the archive has a request and a response that both parse.
FullArchive ==
  /\ replay.pc \notin {"none", "load"} /\ replay.loadable
  /\ \A n \in DOMAIN replay.Entries :
       replay.Entries[n].req = "ok" /\ replay.Entries[n].resp = "ok"

\* C21, as stated: in the replay of an archive all of whose entries have a
\* request and a response that parse, whenever the entries before position i
\* have been fed the pairing cache is empty and exactly one exchange has been
\* handed over per entry fed, complete, under the key of that entry; and the
\* frame of every side carries the position of its entry as sequence number.
C21_OneExchangePerEntry ==
  FullArchive =>
    /\ \A n \in DOMAIN replay.received[replay.col] :
         replay.received[replay.col][n].Seq = (n - 1) \div 2
    /\ replay.pc \in {"request", "return", "done"} =>
         /\ pairCache = <<>>
         /\ Len(handed) = replay.i
         /\ \A n \in DOMAIN handed :
              handed[n].w.id = n /\ Complete(handed[n].w)

====
